---- MODULE Spec2Model ----
(***************************************************************************)
(* A model of link_checker.py: the Medium profile crawler that lists an    *)
(* author's articles, extracts every anchor of each article, fetches the   *)
(* link and records status and redirect chain.                             *)
(*                                                                         *)
(* Strings.  A Python str is modelled as a sequence of lexical tokens; the *)
(* str it stands for is the concatenation of the tokens.  The tokens are   *)
(* chosen so that every string operation of the source is decided by the   *)
(* token sequence: "/" and "?" are tokens of their own and occur inside no *)
(* other token except the scheme separator "://", whose first character is *)
(* ':' and whose last is '/'.                                              *)
(*                                                                         *)
(* Exceptions.  A call either returns a value or raises; an operator that  *)
(* can raise returns [raised |-> <exception name or "">, val |-> <value>]. *)
(***************************************************************************)
EXTENDS Integers, Sequences, FiniteSets, TLC

\* ------------------------------------------------------------------ bounds
\* longest href (in tokens) given to extract_href on its own
MaxHrefLen == 5
\* most <article> blocks on a profile page
MaxBlocks == 2
\* most <a> elements inside one block
MaxAnchors == 2
\* most <a> elements one run meets over all the articles it checks
MaxLinks == 2
\* longest redirect_chain handed to the Link constructor directly
MaxChain == 2

\* ----------------------------------------------------------- str operations
\* the str of no characters
EmptyStr == <<>>

\* pat in s
Contains(s, pat) ==
    \E i \in 1..(Len(s) - Len(pat) + 1) : SubSeq(s, i, i + Len(pat) - 1) = pat

\* s.split(c)[0]: everything before the first c, the whole of s when c is absent
SplitFirst(s, c) ==
    IF \E i \in 1..Len(s) : s[i] = c
    THEN SubSeq(s, 1, (CHOOSE i \in 1..Len(s) : s[i] = c /\ \A j \in 1..(i - 1) : s[j] # c) - 1)
    ELSE s

\* s[-1] == '/', for a non-empty s
EndsWithSlash(s) == s[Len(s)] \in {"/", "://"}

\* s[:-1], for an s whose last character is '/'
DropLastChar(s) ==
    IF s[Len(s)] = "://" THEN SubSeq(s, 1, Len(s) - 1) \o <<":/">>
    ELSE SubSeq(s, 1, Len(s) - 1)

\* str.strip() of a text whose only whitespace is the token " "
RECURSIVE LStrip(_)
LStrip(s) == IF Len(s) > 0 /\ s[1] = " " THEN LStrip(Tail(s)) ELSE s

RECURSIVE RStrip(_)
RStrip(s) == IF Len(s) > 0 /\ s[Len(s)] = " " THEN RStrip(SubSeq(s, 1, Len(s) - 1)) ELSE s

Strip(s) == RStrip(LStrip(s))

\* ------------------------------------------------------- results of a call
Ok(v) == [raised |-> "", val |-> v]

Raise(e) == [raised |-> e, val |-> EmptyStr]

\* ------------------------------------------------------------ bs4 elements
\* an <a> element: whether it carries an href attribute, the attribute's value
\* and its text content
Tag(has, href, text) == [has_href |-> has, href |-> href, text |-> text]

\* a.get_text(strip=True)
get_text(a) == Strip(a.text)

\* ------------------------------------------------------------- extract_href
\* the allow-list of line 74
KeepParams == {<<"youtube.com", "/", "watch">>}

\* a bug extract_href could have: the query string is kept
extract_href_keepquery(a, current_domain, scheme, strip_params) ==
    IF ~a.has_href THEN Raise("KeyError")
    ELSE IF Len(a.href) = 0 THEN Raise("IndexError")
    ELSE IF a.href[1] = "/" THEN Ok(<<scheme, "://">> \o current_domain \o a.href)
    ELSE Ok(a.href)

\* extract_href(a, current_domain, scheme, strip_params).  a['href'] of a Tag
\* without the attribute raises KeyError, which the except AttributeError clause
\* does not catch; href[0] of the empty str raises IndexError.
extract_href(a, current_domain, scheme, strip_params) ==
    IF ~a.has_href THEN Raise("KeyError")
    ELSE LET href == IF strip_params /\ ~(\E x \in KeepParams : Contains(a.href, x))
                     THEN SplitFirst(a.href, "?")
                     ELSE a.href
         IN  IF Len(href) = 0 THEN Raise("IndexError")
             ELSE IF href[1] = "/" THEN Ok(<<scheme, "://">> \o current_domain \o href)
             ELSE Ok(href)

\* ------------------------------------------- extract_href on its own inputs
HrefTokens == {"/", "?", "youtube.com", "watch", "x"}

RECURSIVE StrsUpTo(_, _)
StrsUpTo(toks, n) ==
    IF n = 0 THEN {EmptyStr}
    ELSE LET shorter == StrsUpTo(toks, n - 1)
         IN  shorter \cup {Append(s, t) : s \in {u \in shorter : Len(u) = n - 1}, t \in toks}

Hrefs == StrsUpTo(HrefTokens, MaxHrefLen)

\* ------------------------------------------------------------------- URLs
Schemes == {"https", "http"}

\* the hosts of the modelled web; each has a registrable domain and a public suffix
Hosts == {"pub.medium.com", "medium.com", "x.com", "youtube.com"}

\* what requests accepts as a URL: scheme://host followed by anything
WellFormed(url) ==
    /\ Len(url) >= 3
    /\ url[1] \in Schemes
    /\ url[2] = "://"
    /\ url[3] \in Hosts

\* tldextract.extract(url).fqdn: the host of the URL, '' when there is none
fqdn(url) == IF WellFormed(url) THEN <<url[3]>> ELSE EmptyStr

\* the same path on the platform's other host (branded subdomain <-> apex)
OtherHost(url) ==
    [url EXCEPT ![3] = IF url[3] = "pub.medium.com" THEN "medium.com" ELSE "pub.medium.com"]

\* the two accepted forms of a profile URL
ProfileUrls == {<<"https", "://", "pub.medium.com">>, <<"https", "://", "medium.com", "/", "@pub">>}

\* ------------------------------------------------------------------- pages
\* A parsed page is the sequence of its <article> blocks in document order, a
\* block the sequence of the <a> elements inside it in document order.
RECURSIVE SeqsUpTo(_, _)
SeqsUpTo(S, n) ==
    IF n = 0 THEN {<<>>}
    ELSE LET shorter == SeqsUpTo(S, n - 1)
         IN  shorter \cup {Append(s, t) : s \in {u \in shorter : Len(u) = n - 1}, t \in S}

\* the anchors profile pages are built from
ProfileTags ==
    { Tag(TRUE, <<"/", "p">>, <<"t">>),
      Tag(TRUE, <<"/", "q", "?", "source">>, <<"t">>),
      Tag(FALSE, EmptyStr, <<"t">>) }

ProfilePages == SeqsUpTo(SeqsUpTo(ProfileTags, MaxAnchors), MaxBlocks)

\* the anchors article pages are built from
ArticleTags ==
    { Tag(TRUE, <<"/", "about">>, <<" ", "t">>),
      Tag(TRUE, <<"https", "://", "x.com", "/", "a", "?", "utm">>, <<"t", " ">>),
      Tag(FALSE, EmptyStr, <<"t">>) }

\* an article page has no <article> block or one
ArticlePages == {<<>>} \cup {<<b>> : b \in SeqsUpTo(ArticleTags, MaxAnchors)}

\* the slugs of article URLs
Slugs == {"p", "q"}

\* ------------------------------------------------------------ make_request
NoHistory == <<>>

Response(url, status_code, history, page) ==
    [url |-> url, status_code |-> status_code, history |-> history, page |-> page]

NoResponse == Response(EmptyStr, 0, NoHistory, <<>>)

\* what the web answers to a GET of url, redirects followed: the final URL, the
\* status, the intermediate responses and the parsed body
Responses(url) ==
    IF url \in ProfileUrls
    THEN {Response(u, 200, IF u[3] = url[3] THEN NoHistory ELSE <<[url |-> url]>>, pg) :
            u \in {<<"https", "://", "pub.medium.com", "/">>, <<"https", "://", "medium.com", "/", "@pub">>},
            pg \in ProfilePages}
    ELSE IF url[Len(url)] \in Slugs
    THEN {Response(u, 200, IF u = url THEN NoHistory ELSE <<[url |-> url]>>, pg) :
            u \in {url, OtherHost(url)}, pg \in ArticlePages}
    ELSE { Response(url, 200, NoHistory, <<>>), Response(url, 404, NoHistory, <<>>) }
         \cup (IF url[3] = "x.com"
               THEN {Response(url \o <<"/", "moved">>, 200, <<[url |-> url]>>, <<>>)}
               ELSE {})

\* make_request(url): the outcomes of requests.get(url=url).  A str that is no
\* URL raises MissingSchema; a network error, timeout or non-resolving host
\* raises ConnectionError; otherwise a Response is returned.
make_request(url) ==
    IF ~WellFormed(url) THEN {Raise("MissingSchema")}
    ELSE {Raise("ConnectionError")} \cup {Ok(r) : r \in Responses(url)}

\* bool(response): Response.__bool__ is Response.ok, false for 4xx and 5xx
Truthy(data) == ~(data.status_code >= 400 /\ data.status_code < 600)

\* ------------------------------------------------------------------- Link
\* an optional list argument: None, or a list
NoneList == [given |-> FALSE, list |-> <<>>]

Given(l) == [given |-> TRUE, list |-> l]

\* a bug Link.__init__ could have: final_url is the first hop of the chain
Link_firsthop(url, anchor, http_status, redirect_chain) ==
    LET chain == IF redirect_chain.given /\ Len(redirect_chain.list) > 0
                 THEN redirect_chain.list ELSE <<>>
    IN  [url |-> url, anchor |-> anchor, http_status |-> http_status,
         redirect_chain |-> chain,
         final_url |-> IF Len(chain) = 0 THEN url ELSE chain[1]]

\* Link.__init__
Link(url, anchor, http_status, redirect_chain) ==
    LET chain == IF redirect_chain.given /\ Len(redirect_chain.list) > 0
                 THEN redirect_chain.list ELSE <<>>
    IN  [url |-> url, anchor |-> anchor, http_status |-> http_status,
         redirect_chain |-> chain,
         final_url |-> IF Len(chain) = 0 THEN url ELSE chain[Len(chain)]]

NoLink == Link(EmptyStr, EmptyStr, 0, NoneList)

\* the value create_link returns: None, or a Link
ReturnNone == [is_none |-> TRUE, link |-> NoLink]

ReturnLink(l) == [is_none |-> FALSE, link |-> l]

\* Link.create_link(url, anchor), given the outcome of its make_request(url)
create_link(url, anchor, fetched) ==
    IF fetched.raised # "" THEN [raised |-> fetched.raised, val |-> ReturnNone]
    ELSE LET data == fetched.val
             redirects == [i \in DOMAIN data.history |-> data.history[i].url]
         IN  IF ~Truthy(data) THEN Ok(ReturnNone)
             ELSE Ok(ReturnLink(Link(url, anchor, data.status_code, Given(redirects))))

\* Link.to_dict
to_dict(l) ==
    [url |-> l.url, anchor |-> l.anchor, http_status |-> l.http_status,
     redirect_chain |-> l.redirect_chain, final_url |-> l.final_url]

\* ------------------------------------------------ get_medium_article_links
\* the loop of lines 46-53 over the blocks still to visit
RECURSIVE ListLinks(_, _)
ListLinks(data, articles) ==
    IF Len(articles) = 0 THEN Ok(<<>>)
    ELSE LET article == Head(articles)
         IN  IF Len(article) = 0 THEN ListLinks(data, Tail(articles))
             ELSE LET link == article[1]
                  IN  IF ~link.has_href THEN [raised |-> "KeyError", val |-> <<>>]
                      ELSE LET base == IF EndsWithSlash(data.url) THEN DropLastChar(data.url) ELSE data.url
                               joined == base \o link.href
                               href == IF \E i \in 1..Len(joined) : joined[i] = "?"
                                       THEN SplitFirst(joined, "?") ELSE joined
                               rest == ListLinks(data, Tail(articles))
                           IN  IF rest.raised # "" THEN rest
                               ELSE Ok(<<href>> \o rest.val)

\* get_medium_article_links(url), given the outcome of its make_request(url)
get_medium_article_links(fetched) ==
    IF fetched.raised # "" THEN [raised |-> fetched.raised, val |-> <<>>]
    ELSE ListLinks(fetched.val, fetched.val.page)

\* ------------------------------------------------------ check_medium_links
\* str(time.time()) at tick t of the clock
Timestamp(t) == <<"str", t>>

\* a bug the record of lines 181-185 could have: the links in reverse order
ReportRecord_reversed(link, t, article_links) ==
    [url |-> link, timestamp |-> Timestamp(t),
     links |-> [i \in DOMAIN article_links |-> to_dict(article_links[Len(article_links) + 1 - i])]]

\* the record appended at lines 180-186
ReportRecord(link, t, article_links) ==
    [url |-> link, timestamp |-> Timestamp(t),
     links |-> [i \in DOMAIN article_links |-> to_dict(article_links[i])]]

\* ------------------------------------------------------------------ state
VARIABLES
    pc,              \* where check_medium_links stands: start, listing, listed, anchors,
                     \* done, raised
    exc,             \* the exception that ended the call, "" when none
    exc_at,          \* the function that raised it
    profile_url,     \* the argument of check_medium_links
    profile_data,    \* get_medium_article_links: data, while the listing is in scope
    links,           \* check_medium_links: links
    idx,             \* position of the for loop of line 177, 1-based
    output,          \* check_medium_links: output
    clock,           \* time.time()
    data,            \* check_medium_article_links: data
    current_domain,  \* check_medium_article_links: current_domain
    anchors,         \* check_medium_article_links: article.find_all('a')
    k,               \* position of the for loop of line 99, 1-based
    the_links,       \* check_medium_article_links: links
    log,             \* history: what happened to each anchor of the current article
    met,             \* history: the number of anchors met in the articles so far
    returned,        \* history: the lists check_medium_article_links has returned
    a_in,            \* extract_href on its own: a
    domain_in,       \* current_domain
    scheme_in,       \* scheme
    strip_in,        \* strip_params
    href_out,        \* its outcome
    l_url,           \* Link on its own: url
    l_anchor,        \* anchor
    l_status,        \* http_status
    l_chain,         \* redirect_chain
    the_link,        \* how the Link was built, and the Link
    link_dict        \* its to_dict(), once taken

crawlVars ==
    <<pc, exc, exc_at, profile_url, profile_data, links, idx, output, clock, data,
      current_domain, anchors, k, the_links, log, met, returned>>

hrefVars == <<a_in, domain_in, scheme_in, strip_in, href_out>>

linkVars == <<l_url, l_anchor, l_status, l_chain, the_link, link_dict>>

vars == <<crawlVars, hrefVars, linkVars>>

\* ---------------------------------------------------------- the crawl idle
CrawlIdle ==
    /\ pc = "idle" /\ exc = "" /\ exc_at = ""
    /\ profile_url = EmptyStr /\ profile_data = NoResponse
    /\ links = <<>> /\ idx = 1 /\ output = <<>> /\ clock = 0
    /\ data = NoResponse /\ current_domain = EmptyStr /\ anchors = <<>> /\ k = 1
    /\ the_links = <<>> /\ log = <<>> /\ met = 0 /\ returned = <<>>

\* href_out before extract_href has been applied
NotCalled == [raised |-> "not called", val |-> EmptyStr]

HrefIdle ==
    /\ a_in = Tag(FALSE, EmptyStr, EmptyStr) /\ domain_in = EmptyStr
    /\ scheme_in = "https" /\ strip_in = TRUE /\ href_out = NotCalled

NotBuilt == [via |-> "none", link |-> NoLink]

NoDict == [taken |-> FALSE, dict |-> to_dict(NoLink)]

LinkIdle ==
    /\ l_url = EmptyStr /\ l_anchor = EmptyStr /\ l_status = 0 /\ l_chain = NoneList
    /\ the_link = NotBuilt /\ link_dict = NoDict

\* ------------------------------------------- extract_href on its own inputs
InitHref ==
    /\ a_in \in {Tag(TRUE, h, <<"t">>) : h \in Hrefs} \cup {Tag(FALSE, EmptyStr, <<"t">>)}
    /\ domain_in \in {<<"pub.medium.com">>, EmptyStr}
    /\ scheme_in \in Schemes
    /\ strip_in \in BOOLEAN
    /\ href_out = NotCalled
    /\ CrawlIdle /\ LinkIdle

ExtractHref ==
    /\ href_out = NotCalled
    /\ href_out' = extract_href(a_in, domain_in, scheme_in, strip_in)
    /\ UNCHANGED <<a_in, domain_in, scheme_in, strip_in, crawlVars, linkVars>>

NextHref == ExtractHref

SpecHref == InitHref /\ [][NextHref]_vars

\* ---------------------------------------------------------------- the crawl
Init ==
    /\ pc = "start" /\ exc = "" /\ exc_at = ""
    /\ profile_url \in ProfileUrls /\ profile_data = NoResponse
    /\ links = <<>> /\ idx = 1 /\ output = <<>> /\ clock = 0
    /\ data = NoResponse /\ current_domain = EmptyStr /\ anchors = <<>> /\ k = 1
    /\ the_links = <<>> /\ log = <<>> /\ met = 0 /\ returned = <<>>
    /\ HrefIdle /\ LinkIdle

\* what the log records of one anchor: the element, the outcome of extract_href,
\* whether a fetch was issued and how it ended, and whether a Link was appended
LogEntry(a, href, fetch, status_code, appended) ==
    [a |-> a, href |-> href, fetch |-> fetch, status_code |-> status_code, appended |-> appended]

\* lines 31-53: the body of get_medium_article_links(profile_url), up to its
\* return statement
GetMediumArticleLinks ==
    /\ pc = "start"
    /\ \E fetched \in make_request(profile_url) :
        LET res == get_medium_article_links(fetched)
        IN  /\ profile_data' = IF fetched.raised = "" THEN fetched.val ELSE NoResponse
            /\ IF res.raised # ""
               THEN /\ pc' = "raised" /\ exc' = res.raised /\ exc_at' = "get_medium_article_links"
                    /\ UNCHANGED links
               ELSE /\ pc' = "listing" /\ links' = res.val
                    /\ UNCHANGED <<exc, exc_at>>
    /\ UNCHANGED <<profile_url, idx, output, clock, data, current_domain, anchors, k,
                   the_links, log, met, returned, hrefVars, linkVars>>

\* lines 55 and 174: get_medium_article_links returns, its locals go out of
\* scope and check_medium_links holds the list
ReturnLinks ==
    /\ pc = "listing"
    /\ pc' = "listed"
    /\ profile_data' = NoResponse
    /\ UNCHANGED <<exc, exc_at, profile_url, links, idx, output, clock, data, current_domain,
                   anchors, k, the_links, log, met, returned, hrefVars, linkVars>>

\* lines 177-178 and 89-98: the next article is requested and parsed, up to the
\* start of the loop over its anchors
BeginArticle ==
    /\ pc = "listed"
    /\ idx <= Len(links)
    /\ \E fetched \in make_request(links[idx]) :
        IF fetched.raised # ""
        THEN /\ pc' = "raised" /\ exc' = fetched.raised /\ exc_at' = "check_medium_article_links"
             /\ UNCHANGED <<data, current_domain, anchors, met>>
        ELSE /\ met' = met + (IF Len(fetched.val.page) = 0 THEN 0 ELSE Len(fetched.val.page[1]))
             /\ met' <= MaxLinks
             /\ data' = fetched.val
             /\ current_domain' = fqdn(links[idx])
             /\ IF Len(fetched.val.page) = 0
                THEN \* soup.find('article') is None: None.find_all raises
                     /\ pc' = "raised" /\ exc' = "AttributeError"
                     /\ exc_at' = "check_medium_article_links"
                     /\ UNCHANGED anchors
                ELSE /\ pc' = "anchors" /\ anchors' = fetched.val.page[1]
                     /\ UNCHANGED <<exc, exc_at>>
    /\ k' = 1 /\ the_links' = <<>> /\ log' = <<>>
    /\ UNCHANGED <<profile_url, profile_data, links, idx, output, clock, returned, hrefVars, linkVars>>

\* lines 99-112: one anchor of the article
CheckAnchor ==
    /\ pc = "anchors"
    /\ k <= Len(anchors)
    /\ LET a == anchors[k]
           href == extract_href(a, current_domain, "https", TRUE)
       IN  IF href.raised # ""
           THEN /\ pc' = "raised" /\ exc' = href.raised /\ exc_at' = "extract_href"
                /\ log' = Append(log, LogEntry(a, href, "none", 0, FALSE))
                /\ UNCHANGED <<k, the_links>>
           ELSE \E fetched \in make_request(href.val) :
                LET res == create_link(href.val, get_text(a), fetched)
                IN  IF res.raised # ""
                    THEN /\ pc' = "raised" /\ exc' = res.raised /\ exc_at' = "create_link"
                         /\ log' = Append(log, LogEntry(a, href, "failed", 0, FALSE))
                         /\ UNCHANGED <<k, the_links>>
                    ELSE /\ the_links' = IF res.val.is_none THEN the_links
                                         ELSE Append(the_links, res.val.link)
                         /\ log' = Append(log, LogEntry(a, href, "answered",
                                                        fetched.val.status_code, ~res.val.is_none))
                         /\ k' = k + 1
                         /\ UNCHANGED <<pc, exc, exc_at>>
    /\ UNCHANGED <<profile_url, profile_data, links, idx, output, clock, data, current_domain,
                   anchors, met, returned, hrefVars, linkVars>>

\* lines 114 and 180-186: the article's links are returned and its record appended
EndArticle ==
    /\ pc = "anchors"
    /\ k > Len(anchors)
    /\ returned' = Append(returned, the_links)
    /\ output' = Append(output, ReportRecord(links[idx], clock + 1, the_links))
    /\ clock' = clock + 1
    /\ idx' = idx + 1
    /\ pc' = "listed"
    /\ data' = NoResponse /\ current_domain' = EmptyStr /\ anchors' = <<>> /\ k' = 1
    /\ the_links' = <<>> /\ log' = <<>>
    /\ UNCHANGED <<exc, exc_at, profile_url, profile_data, links, met, hrefVars, linkVars>>

\* line 187: return output
Return ==
    /\ pc = "listed"
    /\ idx > Len(links)
    /\ pc' = "done"
    /\ UNCHANGED <<exc, exc_at, profile_url, profile_data, links, idx, output, clock, data, current_domain,
                   anchors, k, the_links, log, met, returned, hrefVars, linkVars>>

Next ==
    \/ GetMediumArticleLinks
    \/ ReturnLinks
    \/ BeginArticle
    \/ CheckAnchor
    \/ EndArticle
    \/ Return

Spec == Init /\ [][Next]_vars

\* ------------------------------------------------------ Link on its own
LinkUrls ==
    { EmptyStr,
      <<"about">>,
      <<"https", "://", "x.com", "/", "a">>,
      <<"https", "://", "pub.medium.com", "/", "about">> }

InitLink ==
    /\ l_url \in LinkUrls
    /\ l_anchor \in {EmptyStr, <<"t">>}
    /\ l_status \in {200, 404}
    /\ l_chain \in {NoneList} \cup {Given(c) : c \in SeqsUpTo(LinkUrls, MaxChain)}
    /\ the_link = NotBuilt /\ link_dict = NoDict
    /\ CrawlIdle /\ HrefIdle

\* Link(url, anchor, http_status, redirect_chain)
NewLink ==
    /\ the_link = NotBuilt
    /\ the_link' = [via |-> "__init__", link |-> Link(l_url, l_anchor, l_status, l_chain)]
    /\ UNCHANGED <<l_url, l_anchor, l_status, l_chain, link_dict, crawlVars, hrefVars>>

\* Link.create_link(url, anchor)
CreateLink ==
    /\ the_link = NotBuilt
    /\ \E fetched \in make_request(l_url) :
        LET res == create_link(l_url, l_anchor, fetched)
        IN  the_link' = IF res.raised # "" THEN [via |-> "create_link raised", link |-> NoLink]
                        ELSE IF res.val.is_none THEN [via |-> "create_link None", link |-> NoLink]
                        ELSE [via |-> "create_link", link |-> res.val.link]
    /\ UNCHANGED <<l_url, l_anchor, l_status, l_chain, link_dict, crawlVars, hrefVars>>

\* whether the_link holds a Link
Built == the_link.via \in {"__init__", "create_link"}

\* the_link.to_dict()
ToDict ==
    /\ Built
    /\ ~link_dict.taken
    /\ link_dict' = [taken |-> TRUE, dict |-> to_dict(the_link.link)]
    /\ UNCHANGED <<l_url, l_anchor, l_status, l_chain, the_link, crawlVars, hrefVars>>

NextLink ==
    \/ NewLink
    \/ CreateLink
    \/ ToDict

SpecLink == InitLink /\ [][NextLink]_vars

\* ----------------------------------------------------------------- claims
\* C1: in check_medium_article_links a link whose fetch fails entirely is
\* omitted, the other anchors are still checked and the call returns normally:
\* a failed fetch never ends the call with an exception.
C1_FailedFetchOmitsLink ==
    \A i \in DOMAIN log :
        log[i].fetch = "failed" => (pc # "raised" /\ ~log[i].appended)

\* C2: every anchor whose fetch is answered, with whatever status code, yields
\* a Link carrying that status in the article's links.
C2_AnsweredFetchGivesLink ==
    \A i \in DOMAIN log :
        log[i].fetch = "answered" =>
            /\ log[i].appended
            /\ \E j \in DOMAIN the_links :
                /\ the_links[j].url = log[i].href.val
                /\ the_links[j].http_status = log[i].status_code

\* C3: for an anchor without href, extract_href returns '' without raising, no
\* fetch is issued, no Link is produced and the call goes on.
C3_MissingHrefSkipped ==
    \A i \in DOMAIN log :
        ~log[i].a.has_href =>
            /\ log[i].href = Ok(EmptyStr)
            /\ log[i].fetch = "none"
            /\ ~log[i].appended
            /\ pc # "raised"

\* C4: every '/'-relative href of an article is resolved against the host of
\* the article response's final URL.
C4_DomainFromFinalUrl ==
    \A i \in DOMAIN log :
        (log[i].a.has_href /\ Len(log[i].a.href) > 0 /\ log[i].a.href[1] = "/"
         /\ log[i].href.raised = "")
            => fqdn(log[i].href.val) = fqdn(data.url)

\* extract_href has been applied to an anchor that has an href
Applied == href_out # NotCalled /\ a_in.has_href

\* the part of h before its first '?', h itself when it has none
BeforeQuery(h) ==
    CHOOSE p \in {SubSeq(h, 1, n) : n \in 0..Len(h)} :
        /\ \A i \in DOMAIN p : p[i] # "?"
        /\ (Len(p) = Len(h) \/ h[Len(p) + 1] = "?")

\* h contains the allow-listed pattern youtube.com/watch
IsWatchUrl(h) == Contains(h, <<"youtube.com", "/", "watch">>)

\* C5 as stated: with strip_params enabled, an href beginning with '/' comes
\* back as scheme + '://' + domain + the original href.
C5_RelativeKeepsOriginalHref ==
    (Applied /\ strip_in /\ Len(a_in.href) > 0 /\ a_in.href[1] = "/")
        => href_out = Ok(<<scheme_in, "://">> \o domain_in \o a_in.href)

\* C5 amended: with strip_params enabled, an href beginning with '/' comes back
\* as scheme + '://' + domain + the href cut before its first '?', the whole href
\* when it has no '?' or contains youtube.com/watch.
C5_RelativeIsPrefixedAfterStrip ==
    (Applied /\ strip_in /\ Len(a_in.href) > 0 /\ a_in.href[1] = "/")
        => href_out = Ok(<<scheme_in, "://">> \o domain_in
                         \o (IF IsWatchUrl(a_in.href) THEN a_in.href ELSE BeforeQuery(a_in.href)))

\* C5's case: a '/'-relative href with a query string has been normalised
C5_Witness ==
    /\ Applied /\ strip_in /\ href_out.raised = ""
    /\ Len(a_in.href) > 1 /\ a_in.href[1] = "/"
    /\ \E i \in DOMAIN a_in.href : a_in.href[i] = "?"
    /\ ~IsWatchUrl(a_in.href)
    /\ domain_in # EmptyStr

\* C6: with strip_params enabled, every non-empty href not beginning with '/'
\* comes back cut before its first '?', or verbatim when it contains
\* youtube.com/watch.
C6_AbsoluteHrefStripped ==
    (Applied /\ strip_in /\ Len(a_in.href) > 0 /\ a_in.href[1] # "/")
        => href_out = Ok(IF IsWatchUrl(a_in.href) THEN a_in.href ELSE BeforeQuery(a_in.href))

\* final_url is url for an empty chain and the chain's last element otherwise,
\* and to_dict reports the Link's five fields
FinalUrlRule ==
    LET l == the_link.link
    IN  /\ (Len(l.redirect_chain) = 0 => l.final_url = l.url)
        /\ (Len(l.redirect_chain) > 0 => l.final_url = l.redirect_chain[Len(l.redirect_chain)])
        /\ l.url = l_url /\ l.anchor = l_anchor
        /\ (the_link.via = "__init__" =>
                /\ l.http_status = l_status
                /\ l.redirect_chain = IF l_chain.given THEN l_chain.list ELSE <<>>)
        /\ (link_dict.taken =>
                /\ DOMAIN link_dict.dict = {"url", "anchor", "http_status", "redirect_chain", "final_url"}
                /\ link_dict.dict.url = l.url
                /\ link_dict.dict.anchor = l.anchor
                /\ link_dict.dict.http_status = l.http_status
                /\ link_dict.dict.redirect_chain = l.redirect_chain
                /\ link_dict.dict.final_url = l.final_url)

\* C7 as stated: every Link constructed, directly or by create_link, has a
\* non-empty final_url that follows the rule, and to_dict reports its fields.
C7_FinalUrlNeverEmpty ==
    Built => (FinalUrlRule /\ the_link.link.final_url # EmptyStr)

\* C7 amended: every Link constructed follows the rule and to_dict reports its
\* fields; final_url is non-empty for every Link create_link returns, and for a
\* Link constructed directly whenever the url and the chain's entries are
\* non-empty.
C7_FinalUrlRule ==
    Built =>
        /\ FinalUrlRule
        /\ (the_link.via = "create_link" => the_link.link.final_url # EmptyStr)
        /\ ((/\ l_url # EmptyStr
             /\ \A i \in DOMAIN the_link.link.redirect_chain :
                    the_link.link.redirect_chain[i] # EmptyStr)
                => the_link.link.final_url # EmptyStr)

\* C7's case: a Link built directly with a chain of two different hops, and its
\* to_dict taken
C7_Witness ==
    /\ the_link.via = "__init__"
    /\ Len(the_link.link.redirect_chain) = 2
    /\ the_link.link.redirect_chain[1] # the_link.link.redirect_chain[2]
    /\ link_dict.taken

\* C8: check_medium_links holds one record per article checked so far, in the
\* order of discovery; record i carries the i-th article URL and the mappings of
\* the Links check_medium_article_links returned for it, in order; on return
\* there is one record per discovered article.
C8_OneRecordPerArticle ==
    /\ Len(output) = Len(returned)
    /\ Len(output) <= Len(links)
    /\ \A i \in DOMAIN output :
        /\ output[i].url = links[i]
        /\ Len(output[i].links) = Len(returned[i])
        /\ \A j \in DOMAIN returned[i] :
            /\ output[i].links[j].url = returned[i][j].url
            /\ output[i].links[j].anchor = returned[i][j].anchor
            /\ output[i].links[j].http_status = returned[i][j].http_status
            /\ output[i].links[j].redirect_chain = returned[i][j].redirect_chain
            /\ output[i].links[j].final_url = returned[i][j].final_url
    /\ (pc = "done" => Len(output) = Len(links))

\* C8's case: a run that returned two records for the same article URL listed
\* twice, the first with two different links
C8_Witness ==
    /\ pc = "done"
    /\ Len(output) = 2
    /\ links[1] = links[2]
    /\ Len(output[1].links) = 2
    /\ output[1].links[1] # output[1].links[2]

\* C9: a total failure of one article (its fetch fails, or its page has no
\* main content block) does not abort check_medium_links.
C9_ArticleFailureDoesNotAbort ==
    ~(pc = "raised" /\ exc_at = "check_medium_article_links")

\* the hrefs of the hyperlinks of a block: its <a> elements that have an href
RECURSIVE FirstHyperlink(_)
FirstHyperlink(block) ==
    IF Len(block) = 0 THEN <<>>
    ELSE IF block[1].has_href THEN <<block[1].href>>
    ELSE FirstHyperlink(Tail(block))

\* one URL per block that has a hyperlink: the final URL less one trailing '/',
\* then the href of the block's first hyperlink, cut before the first '?'
RECURSIVE ExpectedArticleLinks(_, _)
ExpectedArticleLinks(final_url, blocks) ==
    IF Len(blocks) = 0 THEN <<>>
    ELSE LET first == FirstHyperlink(Head(blocks))
             base == IF final_url[Len(final_url)] = "/"
                     THEN SubSeq(final_url, 1, Len(final_url) - 1) ELSE final_url
         IN  (IF Len(first) = 0 THEN <<>> ELSE <<BeforeQuery(base \o first[1])>>)
             \o ExpectedArticleLinks(final_url, Tail(blocks))

\* C10: for every profile page fetched, get_medium_article_links returns one
\* URL per article block that contains a hyperlink, in document order.
C10_OneUrlPerBlockWithHyperlink ==
    profile_data # NoResponse =>
        /\ pc = "listing"
        /\ links = ExpectedArticleLinks(profile_data.url, profile_data.page)

====
